---- MODULE Spec2Model ----
(* Model of the Pfeiffer TPG26x gauge-controller driver (gauge_controller.py): *)
(* the real controller GaugeControllerx talking to a serial transport, and the *)
(* simulated peer SimGaugeControllerx.                                         *)
(*                                                                             *)
(* A string is a sequence of characters; a character is a one-letter TLA+      *)
(* string, and the six control characters are named after the class constants.*)
(* The transport is a recording stub: `written` is the list of byte strings    *)
(* handed to serial.write, `nreads` counts the calls of serial.readline and    *)
(* serial.read, and `io` is the transcript of the most recent call, its writes *)
(* and the lines served to its reads in the order they happened. The device is *)
(* the environment: every line it serves is drawn from a bounded set.          *)
(* Where the arrival time of a reply matters, `inbuf` is the transport's input *)
(* buffer, each line tagged with the call it answers, and `taken` the tags of  *)
(* the lines the most recent call consumed.                                    *)
(*                                                                             *)
(* The plotting program (blaster_stand_live_pressure_plot.py) is modelled by   *)
(* its position `pc`, its configuration, the controller it holds, its three    *)
(* logs, the data last handed to the plot line, the number of animation frames *)
(* delivered and the `trace` of what run_animation did to the outside.         *)
EXTENDS Integers, Sequences, FiniteSets, TLC

VARIABLES is_open, written, nreads, io, ret, calls,
          sim_open, sim_iteration, sim_reads,
          inbuf, taken,
          pc, com_port, gauge_controller, x_axis_window_range,
          pressure_log, time_log, index, x_vals, xdata, ydata, ticks, trace

vars == <<is_open, written, nreads, io, ret, calls,
          sim_open, sim_iteration, sim_reads,
          inbuf, taken,
          pc, com_port, gauge_controller, x_axis_window_range,
          pressure_log, time_log, index, x_vals, xdata, ydata, ticks, trace>>

latevars == <<inbuf, taken>>

appvars == <<pc, com_port, gauge_controller, x_axis_window_range,
             pressure_log, time_log, index, x_vals, xdata, ydata, ticks, trace>>

realvars == <<is_open, written, nreads, io>>

simvars == <<sim_open, sim_iteration, sim_reads>>

-----------------------------------------------------------------------------
(* Bounds *)

\* calls made on the real controller in one session
MaxCalls == 2

\* calls made on the simulated peers, all instances together
MaxSimCalls == 4

\* comma-separated fields in a data payload served by the device
MaxFields == 4

\* characters before the terminator in a line served to _get_data
MaxLineLen == 3

-----------------------------------------------------------------------------
(* Control characters, GaugeControllerx class variables *)

ETX == "ETX"

CR == "CR"

LF == "LF"

ENQ == "ENQ"

ACK == "ACK"

NAK == "NAK"

-----------------------------------------------------------------------------
(* Code translation tables *)

MEASUREMENT_STATUS ==
    [c \in 0..6 |->
        CASE c = 0 -> "Measurement data okay"
          [] c = 1 -> "Underrange"
          [] c = 2 -> "Overrange"
          [] c = 3 -> "Sensor error"
          [] c = 4 -> "Sensor off (IKR, PKR, IMR, PBR)"
          [] c = 5 -> "No sensor (output: 5,2.0000E-2 [mbar])"
          [] c = 6 -> "Identification error"]

GAUGE_IDS ==
    [k \in { <<"T","P","R">>, <<"I","K","R","9">>, <<"I","K","R","1","1">>,
             <<"P","K","R">>, <<"P","B","R">>, <<"I","M","R">>, <<"C","M","R">>,
             <<"n","o","S","E","n">>, <<"n","o","i","d">> } |->
        CASE k = <<"T","P","R">> -> "Pirani Gauge or Pirani Capacitive gauge"
          [] k = <<"I","K","R","9">> -> "Cold Cathode Gauge 10E-9 "
          [] k = <<"I","K","R","1","1">> -> "Cold Cathode Gauge 10E-11 "
          [] k = <<"P","K","R">> -> "FullRange CC Gauge"
          [] k = <<"P","B","R">> -> "FullRange BA Gauge"
          [] k = <<"I","M","R">> -> "Pirani / High Pressure Gauge"
          [] k = <<"C","M","R">> -> "Linear gauge"
          [] k = <<"n","o","S","E","n">> -> "no SEnsor"
          [] k = <<"n","o","i","d">> -> "no identifier"]

PRESSURE_UNITS ==
    [c \in 0..2 |->
        CASE c = 0 -> "mbar"
          [] c = 1 -> "Torr"
          [] c = 2 -> "Pascal"]

-----------------------------------------------------------------------------
(* Python string operations used by the driver *)

\* a strip that removes one trailing c at most
rstrip_once(s, c) ==
    IF s # <<>> /\ s[Len(s)] = c THEN SubSeq(s, 1, Len(s) - 1) ELSE s

\* str.rstrip(c): every trailing occurrence of the character c is removed
RECURSIVE rstrip(_, _)
rstrip(s, c) ==
    IF s # <<>> /\ s[Len(s)] = c
    THEN rstrip(SubSeq(s, 1, Len(s) - 1), c)
    ELSE s

\* str.split(','): the fields between the commas; a string without a comma
\* (the empty string too) is one field
RECURSIVE split(_)
split(s) ==
    IF \E i \in 1..Len(s) : s[i] = ","
    THEN LET i == CHOOSE j \in 1..Len(s) :
                      s[j] = "," /\ \A k \in 1..(j - 1) : s[k] # ","
         IN  <<SubSeq(s, 1, i - 1)>> \o split(SubSeq(s, i + 1, Len(s)))
    ELSE <<s>>

\* the characters int() and float() skip at both ends (str.isspace), among
\* the characters of the model's alphabet
IsSpace(c) == c \in {CR, LF}

RECURSIVE lstripSpace(_)
lstripSpace(s) ==
    IF s # <<>> /\ IsSpace(s[1]) THEN lstripSpace(Tail(s)) ELSE s

RECURSIVE rstripSpace(_)
rstripSpace(s) ==
    IF s # <<>> /\ IsSpace(s[Len(s)])
    THEN rstripSpace(SubSeq(s, 1, Len(s) - 1))
    ELSE s

Digits == {"0", "1", "2", "3", "4", "5", "6", "7", "8", "9"}

DigitVal(c) ==
    CASE c = "0" -> 0 [] c = "1" -> 1 [] c = "2" -> 2 [] c = "3" -> 3
      [] c = "4" -> 4 [] c = "5" -> 5 [] c = "6" -> 6 [] c = "7" -> 7
      [] c = "8" -> 8 [] c = "9" -> 9

AllDigits(s) == \A i \in 1..Len(s) : s[i] \in Digits

\* the number written by a string of decimal digits
RECURSIVE DecVal(_)
DecVal(s) ==
    IF s = <<>> THEN 0
    ELSE 10 * DecVal(SubSeq(s, 1, Len(s) - 1)) + DigitVal(s[Len(s)])

HasSign(s) == s # <<>> /\ s[1] \in {"-", "+"}

Unsigned(s) == IF HasSign(s) THEN Tail(s) ELSE s

SignOf(s) == IF s # <<>> /\ s[1] = "-" THEN -1 ELSE 1

\* int(s): [ok |-> TRUE, v |-> the integer], or ok = FALSE where int() raises
\* ValueError. Surrounding whitespace is skipped, one sign is allowed, and the
\* rest must be one or more digits.
int(s) ==
    LET t == rstripSpace(lstripSpace(s))
        d == Unsigned(t)
    IN  IF d # <<>> /\ AllDigits(d)
        THEN [ok |-> TRUE, v |-> SignOf(t) * DecVal(d)]
        ELSE [ok |-> FALSE, v |-> 0]

\* a decimal number m * 10^e in normal form: m carries no trailing zero
RECURSIVE Normal(_, _)
Normal(m, e) ==
    IF m = 0 THEN [m |-> 0, e |-> 0]
    ELSE IF m % 10 = 0 THEN Normal(m \div 10, e + 1)
    ELSE [m |-> m, e |-> e]

IndexOf(s, c) ==
    IF \E i \in 1..Len(s) : s[i] = c
    THEN CHOOSE i \in 1..Len(s) : s[i] = c /\ \A k \in 1..(i - 1) : s[k] # c
    ELSE 0

\* float(s): [ok |-> TRUE, v |-> the value as a normal decimal], or ok = FALSE
\* where float() raises ValueError. The grammar is the one float() accepts over
\* the model's alphabet: whitespace, a sign, digits with at most one point and
\* at least one digit, and an optional exponent E[sign]digits. The value of a
\* short decimal literal is kept as the decimal itself.
float(s) ==
    LET t    == rstripSpace(lstripSpace(s))
        u    == Unsigned(t)
        ie   == IndexOf(u, "E")
        mant == IF ie = 0 THEN u ELSE SubSeq(u, 1, ie - 1)
        expo == IF ie = 0 THEN <<>> ELSE SubSeq(u, ie + 1, Len(u))
        ip   == IndexOf(mant, ".")
        ipart == IF ip = 0 THEN mant ELSE SubSeq(mant, 1, ip - 1)
        fpart == IF ip = 0 THEN <<>> ELSE SubSeq(mant, ip + 1, Len(mant))
        expOk == ie = 0 \/ (Unsigned(expo) # <<>> /\ AllDigits(Unsigned(expo)))
        mantOk == /\ AllDigits(ipart) /\ AllDigits(fpart)
                  /\ Len(ipart) + Len(fpart) > 0
        ev   == IF ie = 0 THEN 0 ELSE SignOf(expo) * DecVal(Unsigned(expo))
    IN  IF mantOk /\ expOk
        THEN [ok |-> TRUE,
              v  |-> Normal(SignOf(t) * DecVal(ipart \o fpart), ev - Len(fpart))]
        ELSE [ok |-> FALSE, v |-> Normal(0, 0)]

\* str(gauge) for the gauge numbers the model passes
str(n) ==
    CASE n = 0 -> <<"0">> [] n = 1 -> <<"1">> [] n = 2 -> <<"2">>
      [] n = 3 -> <<"3">>

-----------------------------------------------------------------------------
(* Exceptions and results *)

NoExc == [exc |-> "none", msg |-> "", raw |-> <<>>]

Raise(exc, msg, raw) == [exc |-> exc, msg |-> msg, raw |-> raw]

\* serial.write on a closed port (pyserial raises PortNotOpenError)
PortNotOpen ==
    Raise("PortNotOpenError", "Attempting to use a port that is not open", <<>>)

\* one write / one read of the transcript
W(bytes) == [d |-> "w", b |-> bytes]

R(line) == [d |-> "r", b |-> line]

\* what a method did and gave back: its transcript, the exception it raised
\* (NoExc when it returned) and the tuple of values it returned (empty when it
\* raised)
Returned(t, val) == [io |-> t, e |-> NoExc, val |-> val]

Raised(t, e) == [io |-> t, e |-> e, val |-> <<>>]

-----------------------------------------------------------------------------
(* GaugeControllerx *)

_cr_lf(string) == string \o <<CR, LF>>

\* _send_command sending the command a second time when the first reply is
\* not the acknowledge
_send_command_retry(open, command, response) ==
    IF ~open THEN [io |-> <<>>, e |-> PortNotOpen, val |-> <<>>]
    ELSE LET t == <<W(command \o <<CR, LF>>), R(response)>>
         IN  IF response = <<ACK, CR, LF>>
             THEN [io |-> t, e |-> NoExc, val |-> <<>>]
             ELSE [io |-> t \o t, val |-> <<>>,
                   e |-> Raise("IOError",
                     IF response = <<NAK, CR, LF>>
                     THEN "Serial communication returned negative acknowledge"
                     ELSE "Serial communication returned unknown response",
                     IF response = <<NAK, CR, LF>> THEN <<>> ELSE response)]

\* _send_command taking every line but the negative acknowledge for the
\* acknowledge
_send_command_nak_only(open, command, response) ==
    IF ~open THEN [io |-> <<>>, e |-> PortNotOpen, val |-> <<>>]
    ELSE LET t == <<W(command \o <<CR, LF>>), R(response)>>
         IN  IF response = <<NAK, CR, LF>>
             THEN [io |-> t, val |-> <<>>,
                   e |-> Raise("IOError",
                     "Serial communication returned negative acknowledge", <<>>)]
             ELSE [io |-> t, e |-> NoExc, val |-> <<>>]

\* _send_command: write the framed command, read one line, raise IOError on
\* the negative acknowledge and on every other line that is not the
\* acknowledge. `open` is serial.is_open; `response` is the line read.
_send_command(open, command, response) ==
    IF ~open THEN Raised(<<>>, PortNotOpen)
    ELSE LET t == <<W(_cr_lf(command)), R(response)>>
         IN  IF response = _cr_lf(<<NAK>>)
             THEN Raised(t, Raise("IOError",
                     "Serial communication returned negative acknowledge", <<>>))
             ELSE IF response # _cr_lf(<<ACK>>)
             THEN Raised(t, Raise("IOError",
                     "Serial communication returned unknown response", response))
             ELSE Returned(t, <<>>)

\* _get_data reading without asking: no ENQ is written
_get_data_no_enq(line) ==
    [io |-> <<R(line)>>, e |-> NoExc, val |-> <<rstrip(rstrip(line, LF), CR)>>]

\* _get_data: write ENQ, read one line, strip the line feeds and then the
\* carriage returns at its end
_get_data(line) ==
    Returned(<<W(<<ENQ>>), R(line)>>, <<rstrip(rstrip(line, LF), CR)>>)

\* _clear_output_buffer: read byte by byte until a read comes back empty;
\* `pending` is what the device had sent
_clear_output_buffer(pending) ==
    Returned([i \in 1..(Len(pending) + 1) |->
                 IF i <= Len(pending) THEN R(<<pending[i]>>) ELSE R(<<>>)],
             <<pending>>)

program_number(open, ack, line) ==
    LET s == _send_command(open, <<"P", "N", "R">>, ack)
        g == _get_data(line)
    IN  IF s.e # NoExc THEN s
        ELSE Returned(s.io \o g.io, <<g.val[1]>>)

\* the int()/float()/lookup steps of one sub-reading: fields i and i+1 of f
IntError == Raise("ValueError", "invalid literal for int() with base 10", <<>>)

FloatError == Raise("ValueError", "could not convert string to float", <<>>)

IndexError == Raise("IndexError", "list index out of range", <<>>)

KeyError == Raise("KeyError", "", <<>>)

\* reply.split(',')[i] converted by conv; the exception of line i, or NoExc
FieldExc(f, i, isInt) ==
    IF i > Len(f) THEN IndexError
    ELSE IF isInt THEN (IF int(f[i]).ok THEN NoExc ELSE IntError)
    ELSE (IF float(f[i]).ok THEN NoExc ELSE FloatError)

\* the first exception among a list of steps, NoExc when none raises
RECURSIVE FirstExc(_)
FirstExc(es) ==
    IF es = <<>> THEN NoExc
    ELSE IF es[1] # NoExc THEN es[1]
    ELSE FirstExc(Tail(es))

\* a lookup that falls back on a default text (dict.get) for an unknown code
MeasurementStatus_default(code) ==
    [e |-> NoExc,
     pair |-> <<code, IF code \in DOMAIN MEASUREMENT_STATUS
                      THEN MEASUREMENT_STATUS[code] ELSE "Unknown status">>]

\* MEASUREMENT_STATUS[status_code] inside the returned tuple: the pair
\* (status_code, text), or KeyError for a code that is no key of the table
MeasurementStatus(code) ==
    IF code \in DOMAIN MEASUREMENT_STATUS
    THEN [e |-> NoExc, pair |-> <<code, MEASUREMENT_STATUS[code]>>]
    ELSE [e |-> KeyError, pair |-> <<>>]

\* the exception of the lookup of field i as a status code (the conversions
\* of the fields come first, and raise first)
StatusLookupExc(f, i) ==
    IF i <= Len(f) /\ int(f[i]).ok
    THEN MeasurementStatus(int(f[i]).v).e
    ELSE NoExc

StatusPair(code) == MeasurementStatus(code).pair

\* the gauge check letting gauge 3 through
InvalidGauge_upto3(gauge) == gauge \notin {1, 2, 3}

\* gauge not in [1, 2]
InvalidGauge(gauge) == gauge \notin {1, 2}

\* the command built for gauge 1 whatever the argument
PressureCommand_gauge1(gauge) == <<"P", "R", "1">>

\* 'PR' + str(gauge)
PressureCommand(gauge) == <<"P", "R">> \o str(gauge)

pressure_gauge(open, gauge, ack, line) ==
    IF InvalidGauge(gauge)
    THEN Raised(<<>>, Raise("ValueError",
                    "The input gauge number can only be 1 or 2", <<>>))
    ELSE LET s == _send_command(open, PressureCommand(gauge), ack)
             g == _get_data(line)
             t == s.io \o g.io
             f == split(g.val[1])
             e == FirstExc(<<FieldExc(f, 1, TRUE), FieldExc(f, 2, FALSE),
                             StatusLookupExc(f, 1)>>)
         IN  IF s.e # NoExc THEN s
             ELSE IF e # NoExc THEN Raised(t, e)
             ELSE Returned(t, <<float(f[2]).v, StatusPair(int(f[1]).v)>>)

\* pressure_gauges giving back the first reading when only the second half of
\* the reply fails
pressure_gauges_partial(open, ack, line) ==
    LET s == _send_command(open, <<"P", "R", "X">>, ack)
        g == _get_data(line)
        t == s.io \o g.io
        f == split(g.val[1])
        e1 == FirstExc(<<FieldExc(f, 1, TRUE), FieldExc(f, 2, FALSE),
                         StatusLookupExc(f, 1)>>)
        e2 == FirstExc(<<FieldExc(f, 3, TRUE), FieldExc(f, 4, FALSE),
                         StatusLookupExc(f, 3)>>)
    IN  IF s.e # NoExc THEN s
        ELSE IF e1 # NoExc THEN Raised(t, e1)
        ELSE IF e2 # NoExc
        THEN Returned(t, <<float(f[2]).v, StatusPair(int(f[1]).v)>>)
        ELSE Returned(t, <<float(f[2]).v, StatusPair(int(f[1]).v),
                           float(f[4]).v, StatusPair(int(f[3]).v)>>)

pressure_gauges(open, ack, line) ==
    LET s == _send_command(open, <<"P", "R", "X">>, ack)
        g == _get_data(line)
        t == s.io \o g.io
        f == split(g.val[1])
        e == FirstExc(<<FieldExc(f, 1, TRUE), FieldExc(f, 2, FALSE),
                        FieldExc(f, 3, TRUE), FieldExc(f, 4, FALSE),
                        StatusLookupExc(f, 1), StatusLookupExc(f, 3)>>)
    IN  IF s.e # NoExc THEN s
        ELSE IF e # NoExc THEN Raised(t, e)
        ELSE Returned(t, <<float(f[2]).v, StatusPair(int(f[1]).v),
                           float(f[4]).v, StatusPair(int(f[3]).v)>>)

gauge_identification(open, ack, line) ==
    LET s == _send_command(open, <<"T", "I", "D">>, ack)
        g == _get_data(line)
        t == s.io \o g.io
        f == split(g.val[1])
    IN  IF s.e # NoExc THEN s
        ELSE IF Len(f) < 2
        THEN Raised(t, Raise("ValueError", "not enough values to unpack", <<>>))
        ELSE IF Len(f) > 2
        THEN Raised(t, Raise("ValueError", "too many values to unpack", <<>>))
        ELSE IF f[1] \notin DOMAIN GAUGE_IDS \/ f[2] \notin DOMAIN GAUGE_IDS
        THEN Raised(t, KeyError)
        ELSE Returned(t, <<f[1], GAUGE_IDS[f[1]], f[2], GAUGE_IDS[f[2]]>>)

pressure_unit(open, ack, line) ==
    LET s == _send_command(open, <<"U", "N", "I">>, ack)
        g == _get_data(line)
        t == s.io \o g.io
        c == int(g.val[1])
    IN  IF s.e # NoExc THEN s
        ELSE IF ~c.ok THEN Raised(t, IntError)
        ELSE IF c.v \notin DOMAIN PRESSURE_UNITS THEN Raised(t, KeyError)
        ELSE Returned(t, <<PRESSURE_UNITS[c.v]>>)

\* a loopback test that does not look at the reply to ETX
rs232_communication_test_unchecked_etx(open, ack, pending, echo1, echo2, ack2) ==
    LET s  == _send_command(open, <<"R", "S", "T">>, ack)
        c  == _clear_output_buffer(pending)
        g1 == _get_data(echo1)
        g2 == _get_data(echo2)
        test_string_out == rstrip(g1.val[1], ENQ) \o rstrip(g2.val[1], ENQ)
        t  == s.io \o <<W(<<ENQ>>)>> \o c.io
                   \o <<W(<<"a">>)>> \o g1.io
                   \o <<W(<<"1">>)>> \o g2.io
                   \o <<W(<<ETX, CR, LF>>), R(ack2)>>
    IN  IF s.e # NoExc THEN s
        ELSE Returned(t, <<test_string_out = <<"a", "1">>>>)

\* rs232_communication_test: RST, ENQ, the buffer cleared, each probe character
\* written and its echo fetched by _get_data, then ETX sent as a command
rs232_communication_test(open, ack, pending, echo1, echo2, ack2) ==
    LET s  == _send_command(open, <<"R", "S", "T">>, ack)
        c  == _clear_output_buffer(pending)
        g1 == _get_data(echo1)
        g2 == _get_data(echo2)
        test_string_out == rstrip(g1.val[1], ENQ) \o rstrip(g2.val[1], ENQ)
        f  == _send_command(open, <<ETX>>, ack2)
        t  == s.io \o <<W(<<ENQ>>)>> \o c.io
                   \o <<W(<<"a">>)>> \o g1.io
                   \o <<W(<<"1">>)>> \o g2.io \o f.io
    IN  IF s.e # NoExc THEN s
        ELSE IF f.e # NoExc THEN Raised(t, f.e)
        ELSE Returned(t, <<test_string_out = <<"a", "1">>>>)

-----------------------------------------------------------------------------
(* SimGaugeControllerx *)

SimInstances == {1, 2}

\* self._P_min, in units of 1e-12 mbar
P_min_pico == 50000

\* self._noise_amplitude, in units of 1e-12 mbar
noise_amplitude_pico == 1000

\* self._A * math.exp(-self._k * self._iteration) for _iteration = 0, 1, ...,
\* in units of 1e-12 mbar
DecayPico ==
    <<1000000, 860708, 740818, 637628, 548812, 472367, 406570, 349938,
      301194, 259240>>

\* round(self._P_min + _decay + _noise, 9) in units of 1e-9 mbar: every
\* multiple of 1e-9 that some noise in [-amplitude, amplitude] rounds to
SimValues(iteration) ==
    LET x == P_min_pico + DecayPico[iteration + 1]
    IN  { n \in ((x - 2 * noise_amplitude_pico) \div 1000)
                 ..((x + 2 * noise_amplitude_pico) \div 1000) :
            /\ 2 * (1000 * n) >= 2 * (x - noise_amplitude_pico) - 1000
            /\ 2 * (1000 * n) <= 2 * (x + noise_amplitude_pico) + 1000 }

\* a pressure read that leaves _iteration alone
sim_pressure_gauge_noinc(iteration, gauge, n) ==
    [val |-> <<Normal(n, -9), <<0, MEASUREMENT_STATUS[0]>>>>,
     iteration |-> iteration]

\* SimGaugeControllerx.pressure_gauge: the reading returned and the new
\* _iteration; the gauge argument is not looked at
sim_pressure_gauge(iteration, gauge, n) ==
    [val |-> <<Normal(n, -9), StatusPair(0)>>, iteration |-> iteration + 1]

\* a dual read that reports the second gauge as underrange
sim_pressure_gauges_underrange(n1, n2) ==
    <<Normal(n1, -9), <<0, MEASUREMENT_STATUS[0]>>,
      Normal(n2, -8), <<1, MEASUREMENT_STATUS[1]>>>>

\* SimGaugeControllerx.pressure_gauges: n1 in 1e-9 mbar, n2 in 1e-8 mbar
sim_pressure_gauges(n1, n2) ==
    <<Normal(n1, -9), StatusPair(0), Normal(n2, -8), StatusPair(0)>>

sim_gauge_identification ==
    << <<"T","P","R">>, GAUGE_IDS[<<"T","P","R">>],
       <<"I","K","R","9">>, GAUGE_IDS[<<"I","K","R","9">>] >>

-----------------------------------------------------------------------------
(* What the device may serve *)

\* lines read in place of the acknowledge: ACK, NAK, nothing before the
\* timeout, an acknowledge cut short, a data line
AckFrame == _cr_lf(<<ACK>>)

AckLines == { AckFrame, _cr_lf(<<NAK>>), <<>>, <<ACK, LF>> }

\* the lines a step after the acknowledge can be served: the step is reached
\* only when the acknowledge was read, otherwise nothing more is read
After(ack, lines) == IF ack = AckFrame THEN lines ELSE { <<>> }

\* data lines of a session
SessionDataLines ==
    { <<>>,
      _cr_lf(<<"0">>),
      _cr_lf(<<"0", ",", "1", ".", "5">>),
      _cr_lf(<<"7", ",", "1", ".", "5">>),
      _cr_lf(<<"0", ",", "1", ".", "5", ",", "2", ",", "7">>),
      _cr_lf(<<"T","P","R", ",", "P","K","R">>) }

\* the fields a payload is built from: status codes of the table, codes
\* outside it, a float that is no int, text, nothing
Fields ==
    { <<"0">>, <<"2">>, <<"7">>, <<"-", "1">>, <<"x">>,
      <<"1", ".", "5", "E", "-", "3">>, <<>> }

RECURSIVE Join(_)
Join(fs) ==
    IF Len(fs) = 1 THEN fs[1]
    ELSE fs[1] \o <<",">> \o Join(Tail(fs))

Payloads ==
    { Join(fs) : fs \in UNION { [1..n -> Fields] : n \in 1..MaxFields } }

\* every payload framed by the device, and the empty read of a timeout
DataLines == { _cr_lf(p) : p \in Payloads } \cup { <<>> }

\* what readline can return around the terminator: up to MaxLineLen
\* characters none of which is LF, then LF or (timeout) nothing
LineAlphabet == { CR, "0", "," }

LineBodies == UNION { [1..n -> LineAlphabet] : n \in 0..MaxLineLen }

TerminatorLines == LineBodies \cup { b \o <<LF>> : b \in LineBodies }

\* what the device has sent when the loopback test clears the buffer
PendingBytes == { <<>>, <<ACK>> }

\* echoes of the loopback probes
EchoLines == { _cr_lf(<<"a">>), _cr_lf(<<"1">>), _cr_lf(<<"a", ENQ>>), <<>> }

-----------------------------------------------------------------------------
(* State machine *)

Result(peer, inst, op, arg, e, val) ==
    [peer |-> peer, inst |-> inst, op |-> op, arg |-> arg,
     exc |-> e.exc, msg |-> e.msg, raw |-> e.raw, val |-> val]

\* the controllers used as a library: the plotting program is not running
NoProgram ==
    /\ pc = "library"
    /\ com_port = ""
    /\ gauge_controller = "None"
    /\ x_axis_window_range = 0
    /\ pressure_log = <<>>
    /\ time_log = <<>>
    /\ index = 0
    /\ x_vals = <<>>
    /\ xdata = <<>>
    /\ ydata = <<>>
    /\ ticks = 0
    /\ trace = <<>>

\* no call made yet on any controller
Untouched ==
    /\ written = <<>>
    /\ nreads = 0
    /\ io = <<>>
    /\ ret = Result("real", 0, "__init__", 0, NoExc, <<>>)
    /\ calls = 0
    /\ sim_open = [i \in SimInstances |-> TRUE]
    /\ sim_iteration = [i \in SimInstances |-> 0]
    /\ sim_reads = [i \in SimInstances |-> 0]
    /\ inbuf = <<>>
    /\ taken = <<>>

\* GaugeControllerx.__init__ opens the port; SimGaugeControllerx.__init__
\* sets _open and starts _iteration at 0
Init ==
    /\ is_open = TRUE
    /\ Untouched
    /\ NoProgram

IsWrite(ev) == ev.d = "w"

RECURSIVE Bytes(_)
Bytes(t) == IF t = <<>> THEN <<>> ELSE <<t[1].b>> \o Bytes(Tail(t))

\* the strings a transcript hands to serial.write, in order
Writes(t) == Bytes(SelectSeq(t, IsWrite))

NumReads(t) == Len(t) - Len(Writes(t))

\* a call that closes the port when the method raises
Call_close_on_error(op, arg, out) ==
    /\ calls < MaxCalls
    /\ calls' = calls + 1
    /\ written' = written \o Writes(out.io)
    /\ nreads' = nreads + NumReads(out.io)
    /\ io' = out.io
    /\ ret' = Result("real", 0, op, arg, out.e, out.val)
    /\ is_open' = (is_open /\ out.e = NoExc)
    /\ UNCHANGED <<simvars, latevars, appvars>>

\* what a method of the real controller that finished with outcome `out`
\* leaves behind
Finished(op, arg, out) ==
    /\ calls' = calls + 1
    /\ written' = written \o Writes(out.io)
    /\ nreads' = nreads + NumReads(out.io)
    /\ io' = out.io
    /\ ret' = Result("real", 0, op, arg, out.e, out.val)
    /\ UNCHANGED <<is_open, simvars>>

\* a method of the real controller called and finished with outcome `out`
Call(op, arg, out) ==
    /\ calls < MaxCalls
    /\ Finished(op, arg, out)
    /\ UNCHANGED <<latevars, appvars>>

ProgramNumber ==
    \E ack \in AckLines : \E line \in After(ack, SessionDataLines) :
        Call("program_number", 0, program_number(is_open, ack, line))

PressureGauge ==
    \E gauge \in 0..3, ack \in AckLines :
      \E line \in After(ack, SessionDataLines) :
        Call("pressure_gauge", gauge, pressure_gauge(is_open, gauge, ack, line))

PressureGauges ==
    \E ack \in AckLines : \E line \in After(ack, SessionDataLines) :
        Call("pressure_gauges", 0, pressure_gauges(is_open, ack, line))

GaugeIdentification ==
    \E ack \in AckLines : \E line \in After(ack, SessionDataLines) :
        Call("gauge_identification", 0, gauge_identification(is_open, ack, line))

PressureUnit ==
    \E ack \in AckLines : \E line \in After(ack, SessionDataLines) :
        Call("pressure_unit", 0, pressure_unit(is_open, ack, line))

Rs232CommunicationTest ==
    \E ack \in AckLines :
      \E pending \in After(ack, PendingBytes),
         echo1 \in After(ack, EchoLines), echo2 \in After(ack, EchoLines),
         ack2 \in After(ack, AckLines) :
        Call("rs232_communication_test", 0,
             rs232_communication_test(is_open, ack, pending, echo1, echo2, ack2))

\* the calls of serial.open() and serial.close(), as transcript events
SerialOpen == [d |-> "open", b |-> <<>>]

SerialClose == [d |-> "close", b |-> <<>>]

\* open_port calling serial.open() whatever the state of the port
open_port_always(open, opens) ==
    IF opens
    THEN [open |-> TRUE, io |-> <<SerialOpen>>, e |-> NoExc,
          val |-> <<"Serial port open">>]
    ELSE [open |-> open, io |-> <<SerialOpen>>,
          e |-> Raise("SerialException", "could not open port", <<>>),
          val |-> <<>>]

\* open_port: serial.open() is called only on a closed port, and may fail
open_port(open, opens) ==
    IF open
    THEN [open |-> TRUE, io |-> <<>>, e |-> NoExc,
          val |-> <<"Serial port open">>]
    ELSE IF opens
    THEN [open |-> TRUE, io |-> <<SerialOpen>>, e |-> NoExc,
          val |-> <<"Serial port open">>]
    ELSE [open |-> FALSE, io |-> <<SerialOpen>>,
          e |-> Raise("SerialException", "could not open port", <<>>),
          val |-> <<>>]

\* close_port: serial.close() is called only on an open port
close_port(open) ==
    [open |-> FALSE, io |-> IF open THEN <<SerialClose>> ELSE <<>>,
     e |-> NoExc, val |-> <<"Serial port closed">>]

OpenPort ==
    \E opens \in BOOLEAN :
        LET out == open_port(is_open, opens)
        IN  /\ calls < MaxCalls
            /\ calls' = calls + 1
            /\ is_open' = out.open
            /\ io' = out.io
            /\ ret' = Result("real", 0, "open_port", 0, out.e, out.val)
            /\ UNCHANGED <<written, nreads, simvars, latevars, appvars>>

ClosePort ==
    LET out == close_port(is_open)
    IN  /\ calls < MaxCalls
        /\ calls' = calls + 1
        /\ is_open' = out.open
        /\ io' = out.io
        /\ ret' = Result("real", 0, "close_port", 0, out.e, out.val)
        /\ UNCHANGED <<written, nreads, simvars, latevars, appvars>>

Next ==
    \/ ProgramNumber
    \/ PressureGauge
    \/ PressureGauges
    \/ GaugeIdentification
    \/ PressureUnit
    \/ Rs232CommunicationTest
    \/ OpenPort
    \/ ClosePort

\* a session of the real controller
Spec == Init /\ [][Next]_vars

-----------------------------------------------------------------------------
(* The first exchange of a fresh controller, over every line the device can *)
(* serve in it                                                               *)

DecodeProgramNumber ==
    /\ calls = 0
    /\ \E ack \in AckLines : \E line \in After(ack, TerminatorLines) :
          Call("program_number", 0, program_number(is_open, ack, line))

DecodePressureGauge ==
    /\ calls = 0
    /\ \E gauge \in 1..2, ack \in AckLines :
        \E line \in After(ack, DataLines) :
          Call("pressure_gauge", gauge,
               pressure_gauge(is_open, gauge, ack, line))

DecodePressureGauges ==
    /\ calls = 0
    /\ \E ack \in AckLines : \E line \in After(ack, DataLines) :
          Call("pressure_gauges", 0, pressure_gauges(is_open, ack, line))

DecodeNext ==
    \/ DecodeProgramNumber
    \/ DecodePressureGauge
    \/ DecodePressureGauges

SpecDecode == Init /\ [][DecodeNext]_vars

-----------------------------------------------------------------------------
(* The simulated peers *)

\* a method of simulated instance i called and returned val
SimFinished(i, op, arg, val) ==
    /\ calls' = calls + 1
    /\ ret' = Result("sim", i, op, arg, NoExc, val)
    /\ UNCHANGED realvars

SimCall(i, op, arg, val) ==
    /\ calls < MaxSimCalls
    /\ SimFinished(i, op, arg, val)
    /\ UNCHANGED <<latevars, appvars>>

SimPressureGauge ==
    \E i \in SimInstances, gauge \in 0..3 :
      \E n \in SimValues(sim_iteration[i]) :
        LET out == sim_pressure_gauge(sim_iteration[i], gauge, n)
        IN  /\ SimCall(i, "pressure_gauge", gauge, out.val)
            /\ sim_iteration' = [sim_iteration EXCEPT ![i] = out.iteration]
            /\ sim_reads' = [sim_reads EXCEPT ![i] = @ + 1]
            /\ UNCHANGED sim_open

SimPressureGauges ==
    \E i \in SimInstances, n1 \in {100, 200}, n2 \in {100, 200} :
        /\ SimCall(i, "pressure_gauges", 0, sim_pressure_gauges(n1, n2))
        /\ UNCHANGED simvars

SimGaugeIdentification ==
    \E i \in SimInstances :
        /\ SimCall(i, "gauge_identification", 0, sim_gauge_identification)
        /\ UNCHANGED simvars

SimPressureUnit ==
    \E i \in SimInstances :
        /\ SimCall(i, "pressure_unit", 0, <<PRESSURE_UNITS[0]>>)
        /\ UNCHANGED simvars

SimRs232CommunicationTest ==
    \E i \in SimInstances :
        /\ SimCall(i, "rs232_communication_test", 0, <<TRUE>>)
        /\ UNCHANGED simvars

SimOpenPort ==
    \E i \in SimInstances :
        /\ SimCall(i, "open_port", 0, <<"Mock serial port open">>)
        /\ sim_open' = [sim_open EXCEPT ![i] = TRUE]
        /\ UNCHANGED <<sim_iteration, sim_reads>>

SimClosePort ==
    \E i \in SimInstances :
        /\ SimCall(i, "close_port", 0, <<"Mock serial port closed">>)
        /\ sim_open' = [sim_open EXCEPT ![i] = FALSE]
        /\ UNCHANGED <<sim_iteration, sim_reads>>

SimNext ==
    \/ SimPressureGauge
    \/ SimPressureGauges
    \/ SimGaugeIdentification
    \/ SimPressureUnit
    \/ SimRs232CommunicationTest
    \/ SimOpenPort
    \/ SimClosePort

SpecSim == Init /\ [][SimNext]_vars

-----------------------------------------------------------------------------
(* The controller in use, real or simulated: the pressure reads of either *)

ReadingsNext ==
    \/ DecodeNext
    \/ (calls = 0 \/ ret.peer = "sim") /\ SimNext

SpecReadings == Init /\ [][ReadingsNext]_vars

-----------------------------------------------------------------------------
(* The input buffer of the transport: replies that arrive in time or late *)

\* what the device answers in these sessions
LateAcks == { AckFrame, _cr_lf(<<NAK>>) }

LateData == { _cr_lf(<<"0", ",", "1", ".", "5">>), _cr_lf(<<"7">>) }

\* serial.readline() under the 1 s timeout. The reply to the write just made
\* arrives before the read gives up, or after it (late). The read takes the
\* oldest line waiting in the input buffer, whichever write it answers, or
\* nothing when the buffer is empty at the timeout; nothing is discarded
\* before the write.
readline(buf, reply, late) ==
    LET avail == IF late THEN buf ELSE Append(buf, reply)
    IN  [line |-> IF avail = <<>> THEN <<>> ELSE Head(avail).b,
         of   |-> IF avail = <<>> THEN <<>> ELSE <<Head(avail).of>>,
         rest |-> (IF avail = <<>> THEN <<>> ELSE Tail(avail))
                     \o (IF late THEN <<reply>> ELSE <<>>)]

\* _send_command then _get_data of call n over the input buffer: the lines
\* served to the two reads, the buffer left, and the calls whose replies were
\* consumed. ENQ is written, and answered, only when the first read gave ACK.
Exchange(open, buf, n, ackr, late1, datar, late2) ==
    LET r1 == readline(buf, [b |-> ackr, of |-> n], late1)
        r2 == readline(r1.rest, [b |-> datar, of |-> n], late2)
    IN  IF ~open
        THEN [ack |-> <<>>, line |-> <<>>, rest |-> buf, taken |-> <<>>]
        ELSE IF r1.line = AckFrame
        THEN [ack |-> r1.line, line |-> r2.line, rest |-> r2.rest,
              taken |-> r1.of \o r2.of]
        ELSE [ack |-> r1.line, line |-> <<>>, rest |-> r1.rest,
              taken |-> r1.of]

LateCall(op, arg, x, out) ==
    /\ calls < MaxCalls
    /\ Finished(op, arg, out)
    /\ inbuf' = x.rest
    /\ taken' = x.taken
    /\ UNCHANGED appvars

LateProgramNumber ==
    \E ackr \in LateAcks, datar \in LateData, late1, late2 \in BOOLEAN :
        LET x == Exchange(is_open, inbuf, calls + 1, ackr, late1, datar, late2)
        IN  LateCall("program_number", 0, x,
                     program_number(is_open, x.ack, x.line))

LatePressureGauge ==
    \E gauge \in 1..2 :
      \E ackr \in LateAcks, datar \in LateData, late1, late2 \in BOOLEAN :
        LET x == Exchange(is_open, inbuf, calls + 1, ackr, late1, datar, late2)
        IN  LateCall("pressure_gauge", gauge, x,
                     pressure_gauge(is_open, gauge, x.ack, x.line))

LatePressureUnit ==
    \E ackr \in LateAcks, datar \in LateData, late1, late2 \in BOOLEAN :
        LET x == Exchange(is_open, inbuf, calls + 1, ackr, late1, datar, late2)
        IN  LateCall("pressure_unit", 0, x,
                     pressure_unit(is_open, x.ack, x.line))

LateNext ==
    \/ LateProgramNumber
    \/ LatePressureGauge
    \/ LatePressureUnit

SpecLate == Init /\ [][LateNext]_vars

-----------------------------------------------------------------------------
(* The plotting program *)

\* animation frames delivered before the window is closed
MaxTicks == 3

\* the largest 'seconds' entry of the window range in the configuration
MaxWindow == 2

OkayText == "Measurement data okay"

\* get_user_config: the window range is the product of the four entries
WindowRange(seconds, minutes, hours, days) ==
    seconds * minutes * hours * days

ConfiguredWindows ==
    { WindowRange(seconds, minutes, hours, days) :
        seconds \in 0..MaxWindow, minutes \in 0..1,
        hours \in 0..1, days \in 0..1 }

\* the program starts in main with its configuration read, or run_animation
\* is entered with a controller that was constructed elsewhere
InitApp ==
    /\ Untouched
    /\ x_axis_window_range \in ConfiguredWindows
    /\ pressure_log = <<>> /\ time_log = <<>> /\ index = 0 /\ x_vals = <<>>
    /\ xdata = <<>> /\ ydata = <<>> /\ ticks = 0 /\ trace = <<>>
    /\ \/ /\ pc = "main"
          /\ com_port \in {"Sim", "COM3"}
          /\ gauge_controller = "None"
          /\ is_open = FALSE
       \/ /\ pc = "run_animation"
          /\ com_port = ""
          /\ gauge_controller \in {"sim", "real"}
          /\ is_open = (gauge_controller = "real")

\* init_gauge_controller: the simulated peer for 'Sim'; otherwise the real
\* controller is constructed and the function ends without a return
\* statement, or the constructor fails and the function returns nothing
init_gauge_controller(port, opens) ==
    IF port = "Sim"
    THEN [controller |-> "sim", opened |-> FALSE]
    ELSE [controller |-> "None", opened |-> opens]

\* main: the controller is made; without one the program says so and exits
Main ==
    /\ pc = "main"
    /\ \E opens \in BOOLEAN :
          LET r == init_gauge_controller(com_port, opens)
          IN  /\ gauge_controller' = r.controller
              /\ is_open' = r.opened
              /\ IF r.controller = "None"
                 THEN /\ pc' = "exit"
                      /\ trace' = Append(trace,
                            [call |-> "print", status |->
                               "Could not connect to pressure gauge controller.",
                             value |-> <<>>])
                 ELSE /\ pc' = "run_animation"
                      /\ trace' = trace
    /\ UNCHANGED <<written, nreads, io, ret, calls, simvars, latevars,
                   com_port, x_axis_window_range, pressure_log, time_log,
                   index, x_vals, xdata, ydata, ticks>>

\* run_animation up to plt.show(): the figure and the empty logs
StartAnimation ==
    /\ pc = "run_animation"
    /\ pc' = "show"
    /\ pressure_log' = <<>> /\ time_log' = <<>> /\ index' = 0
    /\ x_vals' = <<>>
    /\ UNCHANGED <<realvars, ret, calls, simvars, latevars, com_port,
                   gauge_controller, x_axis_window_range, xdata, ydata,
                   ticks, trace>>

\* s[start:] of Python
SliceFrom(s, start) ==
    LET n == Len(s)
        i == IF start < 0
             THEN (IF n + start < 0 THEN 0 ELSE n + start)
             ELSE (IF start > n THEN n ELSE start)
    IN  SubSeq(s, i + 1, n)

\* animate appending whatever the status of the reading is
animate_any_status(val, plog, tlog, idx, xv, window, now) ==
    LET plog1 == Append(plog, val[1])
        xv1   == Append(xv, idx)
        trim  == Len(xv1) > window
    IN  [pressure_log |-> plog1, time_log |-> Append(tlog, now),
         index |-> idx + 1, x_vals |-> xv1,
         xdata |-> IF trim THEN SliceFrom(xv1, -window) ELSE xv1,
         ydata |-> IF trim THEN SliceFrom(plog1, -window) ELSE plog1]

\* animate, once the reading val = (pressure, (code, text)) is there: the
\* three logs grow when the text is the okay text, then the last `window`
\* points are handed to the plot line
animate(val, plog, tlog, idx, xv, window, now) ==
    LET ok    == val[2][2] = OkayText
        plog1 == IF ok THEN Append(plog, val[1]) ELSE plog
        tlog1 == IF ok THEN Append(tlog, now) ELSE tlog
        xv1   == IF ok THEN Append(xv, idx) ELSE xv
        trim  == Len(xv1) > window
    IN  [pressure_log |-> plog1, time_log |-> tlog1,
         index |-> IF ok THEN idx + 1 ELSE idx, x_vals |-> xv1,
         xdata |-> IF trim THEN SliceFrom(xv1, -window) ELSE xv1,
         ydata |-> IF trim THEN SliceFrom(plog1, -window) ELSE plog1]

\* the rest of a frame after a reading came back
Animated(val) ==
    LET a == animate(val, pressure_log, time_log, index, x_vals,
                     x_axis_window_range, ticks)
    IN  /\ pressure_log' = a.pressure_log
        /\ time_log' = a.time_log
        /\ index' = a.index
        /\ x_vals' = a.x_vals
        /\ xdata' = a.xdata
        /\ ydata' = a.ydata
        /\ trace' = Append(trace, [call |-> "pressure_gauge",
                                   status |-> val[2][2], value |-> val[1]])
        /\ pc' = "show"

\* a frame whose reading raised: nothing is logged or plotted; the GUI backend
\* reports the exception and goes on, or it ends plt.show()
NotAnimated ==
    /\ pc' \in {"show", "raising"}
    /\ trace' = Append(trace, [call |-> "pressure_gauge",
                               status |-> "raised", value |-> <<>>])
    /\ UNCHANGED <<pressure_log, time_log, index, x_vals, xdata, ydata>>

\* lines the device serves during the animation
TickDataLines ==
    { _cr_lf(<<"0", ",", "1", ".", "5">>), _cr_lf(<<"0", ",", "7">>),
      _cr_lf(<<"2", ",", "1", ".", "5">>) }

\* one frame of FuncAnimation with the real controller
TickReal ==
    /\ pc = "show" /\ gauge_controller = "real" /\ ticks < MaxTicks
    /\ ticks' = ticks + 1
    /\ \E ack \in {AckFrame, _cr_lf(<<NAK>>)} :
         \E line \in After(ack, TickDataLines) :
          LET out == pressure_gauge(is_open, 1, ack, line)
          IN  /\ Finished("pressure_gauge", 1, out)
              /\ IF out.e = NoExc THEN Animated(out.val) ELSE NotAnimated
    /\ UNCHANGED <<latevars, com_port, gauge_controller, x_axis_window_range>>

\* one frame of FuncAnimation with the simulated peer
TickSim ==
    /\ pc = "show" /\ gauge_controller = "sim" /\ ticks < MaxTicks
    /\ ticks' = ticks + 1
    /\ \E n \in SimValues(sim_iteration[1]) :
          LET out == sim_pressure_gauge(sim_iteration[1], 1, n)
          IN  /\ SimFinished(1, "pressure_gauge", 1, out.val)
              /\ sim_iteration' = [sim_iteration EXCEPT ![1] = out.iteration]
              /\ sim_reads' = [sim_reads EXCEPT ![1] = @ + 1]
              /\ Animated(out.val)
    /\ UNCHANGED <<sim_open, latevars, com_port, gauge_controller,
                   x_axis_window_range>>

\* the window is closed: the animation stops and plt.show() returns
CloseWindow ==
    /\ pc = "show"
    /\ pc' = "shown"
    /\ UNCHANGED <<realvars, ret, calls, simvars, latevars, com_port,
                   gauge_controller, x_axis_window_range, pressure_log,
                   time_log, index, x_vals, xdata, ydata, ticks, trace>>

\* run_animation leaving its try block without closing the port when the
\* block raised
run_animation_exit_unprotected(raised) ==
    [closes |-> ~raised, next |-> IF raised THEN "raised" ELSE "plot_full_log"]

\* run_animation leaving its try block: the finally clause closes the port,
\* then the exception goes on or the full log is plotted
run_animation_exit(raised) ==
    [closes |-> TRUE, next |-> IF raised THEN "raised" ELSE "plot_full_log"]

\* what close_port of the controller in use leaves behind
Closing ==
    /\ trace' = Append(trace, [call |-> "close_port", status |-> "",
                               value |-> <<>>])
    /\ IF gauge_controller = "real"
       THEN LET out == close_port(is_open)
            IN  /\ calls' = calls + 1
                /\ is_open' = out.open
                /\ io' = out.io
                /\ ret' = Result("real", 0, "close_port", 0, out.e, out.val)
                /\ UNCHANGED <<written, nreads, simvars>>
       ELSE /\ SimFinished(1, "close_port", 0, <<"Mock serial port closed">>)
            /\ sim_open' = [sim_open EXCEPT ![1] = FALSE]
            /\ UNCHANGED <<sim_iteration, sim_reads>>

Finally ==
    /\ pc \in {"shown", "raising"}
    /\ LET x == run_animation_exit(pc = "raising")
       IN  /\ pc' = x.next
           /\ IF x.closes THEN Closing
              ELSE UNCHANGED <<realvars, ret, calls, simvars, trace>>
    /\ UNCHANGED <<latevars, com_port, gauge_controller, x_axis_window_range,
                   pressure_log, time_log, index, x_vals, xdata, ydata,
                   ticks>>

\* plot_full_log: the full log is plotted, or there is nothing to plot
PlotFullLog ==
    /\ pc = "plot_full_log"
    /\ pc' = "done"
    /\ trace' = Append(trace,
          [call |-> "plot_full_log",
           status |-> IF time_log = <<>> \/ pressure_log = <<>>
                      THEN "No data to plot." ELSE "",
           value |-> <<>>])
    /\ UNCHANGED <<realvars, ret, calls, simvars, latevars, com_port,
                   gauge_controller, x_axis_window_range, pressure_log,
                   time_log, index, x_vals, xdata, ydata, ticks>>

AppNext ==
    \/ Main
    \/ StartAnimation
    \/ TickReal
    \/ TickSim
    \/ CloseWindow
    \/ Finally
    \/ PlotFullLog

SpecApp == InitApp /\ [][AppNext]_vars

-----------------------------------------------------------------------------
(* Properties *)

GaugeMsg == "The input gauge number can only be 1 or 2"

NakMsg == "Serial communication returned negative acknowledge"

UnknownMsg == "Serial communication returned unknown response"

\* a string written by _send_command: it ends with CR LF
IsCommandFrame(b) ==
    Len(b) >= 2 /\ b[Len(b) - 1] = CR /\ b[Len(b)] = LF

\* the command frames among the writes of a transcript
CommandFrames(t) == SelectSeq(Writes(t), IsCommandFrame)

\* C1: on the real controller, pressure_gauge called with a gauge outside
\* {1, 2} raises the argument error (ValueError, "The input gauge number can
\* only be 1 or 2") and neither writes to nor reads from the transport: the
\* write history and the read count are what they were before the call.
C1_InvalidGaugeNoIO ==
    [][ ( /\ calls' = calls + 1
          /\ ret'.peer = "real"
          /\ ret'.op = "pressure_gauge"
          /\ ret'.arg \notin {1, 2} )
        => ( /\ ret'.exc = "ValueError"
             /\ ret'.msg = GaugeMsg
             /\ ret'.val = <<>>
             /\ io' = <<>>
             /\ written' = written
             /\ nreads' = nreads ) ]_vars

\* an invalid gauge rejected on a handle that has already written and read
C1_Witness ==
    /\ ret.op = "pressure_gauge" /\ ret.arg = 3
    /\ ret.exc = "ValueError" /\ ret.msg = GaugeMsg
    /\ is_open /\ Len(written) = 2 /\ nreads = 2

\* C2: the line read after a command frame decides _send_command alone: the
\* acknowledge frame lets the method go on; the negative-acknowledge frame
\* ends the call with IOError "negative acknowledge"; every other line, the
\* empty line of a timeout included, ends it with IOError "unknown response"
\* carrying the line read (empty on a timeout), so the two failures differ
\* in what the caller gets.
C2_AckLineDecides ==
    \A i \in 1..Len(io) :
        (io[i].d = "w" /\ IsCommandFrame(io[i].b)) =>
            /\ i < Len(io)
            /\ io[i + 1].d = "r"
            /\ LET line == io[i + 1].b
               IN  CASE line = <<ACK, CR, LF>> ->
                          i + 1 < Len(io) \/ ret.exc = "none"
                     [] line = <<NAK, CR, LF>> ->
                          /\ i + 1 = Len(io)
                          /\ ret.exc = "IOError" /\ ret.msg = NakMsg
                          /\ ret.val = <<>>
                     [] OTHER ->
                          /\ i + 1 = Len(io)
                          /\ ret.exc = "IOError" /\ ret.msg = UnknownMsg
                          /\ ret.raw = line
                          /\ ret.val = <<>>

\* a timeout in place of the acknowledge: unknown response, empty payload
C2_Witness ==
    /\ ret.op = "pressure_unit"
    /\ Len(io) = 2 /\ io[2] = R(<<>>)
    /\ ret.exc = "IOError" /\ ret.msg = UnknownMsg /\ ret.raw = <<>>
DropLast(s) == SubSeq(s, 1, Len(s) - 1)

EndsWith(s, c) == s # <<>> /\ s[Len(s)] = c

DropOne(s, c) == IF EndsWith(s, c) THEN DropLast(s) ELSE s

\* a line less one trailing LF and one trailing CR, whichever comes last
StripOneEach(line) ==
    IF EndsWith(line, LF) THEN DropOne(DropLast(line), CR)
    ELSE IF EndsWith(line, CR) THEN DropOne(DropLast(line), LF)
    ELSE line

\* the call was program_number, acknowledged: its value is what _get_data
\* made of the line of the fourth transcript entry
GotData == ret.op = "program_number" /\ ret.exc = "none" /\ Len(io) = 4

\* C3 as stated: _get_data strips exactly one trailing LF and exactly one
\* trailing CR, in either order, and returns the rest of the line unchanged.
C3_StripsExactlyOne ==
    GotData => ret.val[1] = StripOneEach(io[4].b)

\* C3 as amended: _get_data removes every trailing LF and then every trailing
\* CR. What it returns is a prefix of the line, the part removed is a run of
\* CRs followed by a run of LFs, the result does not end with CR, and it ends
\* with LF only where a CR followed that LF in the line.
C3_StripsTrailingRuns ==
    GotData =>
        LET line == io[4].b
            r    == ret.val[1]
        IN  /\ Len(r) <= Len(line)
            /\ r = SubSeq(line, 1, Len(r))
            /\ \E k \in Len(r)..Len(line) :
                  /\ \A j \in (Len(r) + 1)..k : line[j] = CR
                  /\ \A j \in (k + 1)..Len(line) : line[j] = LF
            /\ ~EndsWith(r, CR)
            /\ EndsWith(r, LF) => (Len(r) < Len(line) /\ line[Len(r) + 1] = CR)

\* a line with two CRs before its LF loses both
C3_Witness ==
    /\ GotData
    /\ io[4] = R(<<"0", CR, CR, LF>>)
    /\ ret.val = << <<"0">> >>

\* C4: a line that is empty once its terminator is stripped is no data:
\* program_number (the value of _get_data) never returns the empty string.
C4_EmptyDataFails ==
    GotData => ret.val[1] # <<>>
\* the payload of a data line: the line without its CR LF
PayloadOf(line) ==
    IF Len(line) >= 2 /\ line[Len(line) - 1] = CR /\ line[Len(line)] = LF
    THEN SubSeq(line, 1, Len(line) - 2)
    ELSE line

\* fields i and i+1 of f are a status code of the table and a float
GoodReading(f, i) ==
    /\ Len(f) >= i + 1
    /\ int(f[i]).ok /\ int(f[i]).v \in 0..6
    /\ float(f[i + 1]).ok

\* the Reading (value, (status_code, status_text)) of fields i and i+1
ReadingOf(f, i) ==
    <<float(f[i + 1]).v, <<int(f[i]).v, MEASUREMENT_STATUS[int(f[i]).v]>>>>

\* C5: a command on an open handle leaves it open whether it succeeds or
\* fails; only close_port closes it, and whatever the previous call ended
\* with, the next command on the open handle reaches the transport.
C5_OnlyCloseLeavesOpen ==
    [][ (is_open /\ calls' = calls + 1) =>
          /\ is_open' \/ ret'.op = "close_port"
          /\ ( /\ ret'.op \notin {"open_port", "close_port"}
               /\ ~(ret'.op = "pressure_gauge" /\ ret'.arg \notin {1, 2}) )
             => ( /\ Len(written') > Len(written)
                  /\ nreads' > nreads
                  /\ ret'.exc # "PortNotOpenError" ) ]_vars

\* a second command went out, and failed in its turn, after a first one
\* that was not acknowledged
C5_Witness ==
    /\ is_open /\ calls = 2
    /\ Len(written) = 3 /\ written[2] # <<ENQ>>
    /\ ret.exc = "KeyError"

\* C6: pressure_gauges is all or nothing: when both halves of the reply are
\* a status code of the table and a float, both readings are returned;
\* in every other case (a reply of fewer than four fields, any field
\* malformed, either code unknown, no acknowledge) the call raises and
\* returns nothing.
C6_ReadBothAllOrNothing ==
    (ret.peer = "real" /\ ret.op = "pressure_gauges") =>
        IF Len(io) = 4
           /\ GoodReading(split(PayloadOf(io[4].b)), 1)
           /\ GoodReading(split(PayloadOf(io[4].b)), 3)
        THEN /\ ret.exc = "none"
             /\ ret.val = ReadingOf(split(PayloadOf(io[4].b)), 1)
                            \o ReadingOf(split(PayloadOf(io[4].b)), 3)
        ELSE /\ ret.exc # "none"
             /\ ret.val = <<>>

\* the second status code is unknown: nothing is returned
C6_Witness ==
    /\ ret.op = "pressure_gauges" /\ Len(io) = 4
    /\ io[4] = R(<<"0", ",", "2", ",", "7", ",", "2", CR, LF>>)
    /\ ret.exc = "KeyError" /\ ret.val = <<>>

\* the readings in the tuple a pressure read returned
ReadingsIn(val) == { <<val[k], val[k + 1]>> : k \in { j \in {1, 3} : j < Len(val) } }

\* C7: every reading returned by pressure_gauge or pressure_gauges, by the
\* real controller or the simulated one, carries a status code in 0..6 with
\* the table's text for it; on the real controller the code is the one parsed
\* from the reply, and a reply whose code is outside the table raises and
\* returns no reading.
C7_StatusCodeInTable ==
    (ret.op \in {"pressure_gauge", "pressure_gauges"}) =>
        /\ \A rd \in ReadingsIn(ret.val) :
              /\ rd[2][1] \in 0..6
              /\ rd[2][2] = MEASUREMENT_STATUS[rd[2][1]]
        /\ (ret.peer = "real" /\ Len(io) = 4) =>
              LET f == split(PayloadOf(io[4].b))
                  n == IF ret.op = "pressure_gauge" THEN 1 ELSE 2
              IN  /\ ret.exc = "none" =>
                        \A h \in 1..n : ret.val[2 * h][1] = int(f[2 * h - 1]).v
                  /\ (\E h \in 1..n :
                          /\ Len(f) >= 2 * h - 1
                          /\ int(f[2 * h - 1]).ok
                          /\ int(f[2 * h - 1]).v \notin 0..6)
                        => (ret.exc # "none" /\ ret.val = <<>>)

\* the device reports status 7 to PR1: KeyError, no reading
C7_Witness ==
    /\ ret.peer = "real" /\ ret.op = "pressure_gauge" /\ Len(io) = 4
    /\ io[4] = R(<<"7", ",", "2", CR, LF>>)
    /\ ret.exc = "KeyError" /\ ret.val = <<>>

\* C8: for gauge g in {1, 2} on an open handle, pressure_gauge writes exactly
\* one command frame, 'PR' g CR LF, first; and when the acknowledge is read
\* and the data line is 'code,value' CR LF with code in the table, it returns
\* (value, (code, text of code)).
C8_ReadGaugeFrameAndReading ==
    (ret.peer = "real" /\ ret.op = "pressure_gauge" /\ ret.arg \in {1, 2}
       /\ is_open) =>
        /\ io # <<>>
        /\ io[1] = W(<<"P", "R", IF ret.arg = 1 THEN "1" ELSE "2", CR, LF>>)
        /\ Len(CommandFrames(io)) = 1
        /\ ( /\ Len(io) = 4
             /\ Len(split(PayloadOf(io[4].b))) = 2
             /\ GoodReading(split(PayloadOf(io[4].b)), 1) )
           => ( /\ ret.exc = "none"
                /\ ret.val = ReadingOf(split(PayloadOf(io[4].b)), 1) )

\* PR2 answered with an overrange reading
C8_Witness ==
    /\ ret.op = "pressure_gauge" /\ ret.arg = 2
    /\ written = << <<"P", "R", "2", CR, LF>>, <<ENQ>> >>
    /\ io[4] = R(<<"2", ",", "1", ".", "5", "E", "-", "3", CR, LF>>)
    /\ ret.val = << [m |-> 15, e |-> -4], <<2, "Overrange">> >>

\* C9: the simulated pressure_gauge rejects a gauge outside {1, 2} as the
\* real one does.
C9_SimRejectsInvalidGauge ==
    (ret.peer = "sim" /\ ret.op = "pressure_gauge" /\ ret.arg \notin {1, 2})
        => (ret.exc = "ValueError" /\ ret.val = <<>>)

\* C10: in every simulated instance _iteration starts at 0, grows by one in
\* each pressure_gauge call on that instance and is left alone by every other
\* call, on that instance or another; it equals the number of pressure_gauge
\* calls made on the instance.
C10_IterationCountsReads ==
    /\ \A i \in SimInstances : sim_iteration[i] = 0
    /\ [](\A i \in SimInstances : sim_iteration[i] = sim_reads[i])
    /\ [][ \A i \in SimInstances :
             sim_iteration'[i] =
                IF /\ calls' = calls + 1
                   /\ ret'.op = "pressure_gauge" /\ ret'.inst = i
                THEN sim_iteration[i] + 1
                ELSE sim_iteration[i] ]_vars

\* two reads on one instance, one on the other, then a close
C10_Witness ==
    /\ sim_iteration = <<2, 1>>
    /\ ret.peer = "sim" /\ ret.op = "close_port" /\ ret.inst = 1
\* C11: every reading of the simulated peer, the one of pressure_gauge and
\* both of pressure_gauges, has status code 0 and the text 'Measurement data
\* okay', whatever calls came before and whether the instance is open or
\* closed.
C11_SimStatusAlwaysOkay ==
    (ret.peer = "sim" /\ ret.op \in {"pressure_gauge", "pressure_gauges"}) =>
        /\ ret.exc = "none"
        /\ Len(ret.val) = (IF ret.op = "pressure_gauge" THEN 2 ELSE 4)
        /\ \A k \in 1..Len(ret.val) :
              k % 2 = 0 => ret.val[k] = <<0, "Measurement data okay">>

\* a dual read on an instance that was read twice and then closed
C11_Witness ==
    /\ ret.peer = "sim" /\ ret.op = "pressure_gauges" /\ ret.inst = 1
    /\ ~sim_open[1] /\ sim_iteration[1] = 2
    /\ ret.val[4] = <<0, "Measurement data okay">>
\* the call was the loopback test and its RST was acknowledged
LoopbackRan ==
    ret.peer = "real" /\ ret.op = "rs232_communication_test" /\ Len(io) > 2

\* s without the run of c at its end
TrimRun(s, c) ==
    LET k == CHOOSE j \in 0..Len(s) :
                /\ \A i \in (Len(s) - j + 1)..Len(s) : s[i] = c
                /\ (j < Len(s) => s[Len(s) - j] # c)
    IN  SubSeq(s, 1, Len(s) - k)

\* the characters an echo line carries: its terminator and a trailing ENQ
\* taken off
Echoed(line) == TrimRun(TrimRun(TrimRun(line, LF), CR), ENQ)

\* C12 as stated: after the acknowledge of RST the writes are, in order, ENQ,
\* 'a', '1' and ETX CR LF, and nothing else.
C12_LoopbackWrites ==
    LoopbackRan =>
        Writes(SubSeq(io, 3, Len(io)))
            = << <<ENQ>>, <<"a">>, <<"1">>, <<ETX, CR, LF>> >>

\* C12 as amended: after the acknowledge of RST the writes are, in order, ENQ,
\* 'a', ENQ, '1', ENQ and ETX CR LF: each probe character is followed by the
\* ENQ that _get_data writes before it reads the echo. Between the first ENQ
\* and 'a' the transport is only read (the buffer is cleared); one line is
\* read after each probe's ENQ and one after the ETX frame.
C12_LoopbackWritesWithEnq ==
    LoopbackRan =>
        LET n == Len(io)
        IN  /\ Writes(SubSeq(io, 3, n))
                 = << <<ENQ>>, <<"a">>, <<ENQ>>, <<"1">>, <<ENQ>>,
                      <<ETX, CR, LF>> >>
            /\ n >= 12
            /\ io[3] = W(<<ENQ>>)
            /\ \A i \in 4..(n - 8) : io[i].d = "r"
            /\ io[n - 7] = W(<<"a">>) /\ io[n - 6] = W(<<ENQ>>)
            /\ io[n - 5].d = "r"
            /\ io[n - 4] = W(<<"1">>) /\ io[n - 3] = W(<<ENQ>>)
            /\ io[n - 2].d = "r"
            /\ io[n - 1] = W(<<ETX, CR, LF>>)
            /\ io[n].d = "r"

\* a loopback test that ran to its end and succeeded
C12_Witness ==
    /\ LoopbackRan /\ ret.exc = "none" /\ ret.val = <<TRUE>>
    /\ Len(written) = 7 /\ written[4] = <<ENQ>>

\* whether the two echoes of a finished loopback transcript make 'a1'
EchoesMatch ==
    Echoed(io[Len(io) - 5].b) \o Echoed(io[Len(io) - 2].b) = <<"a", "1">>

\* C13 as stated: the loopback test returns true when the two echoes make
\* 'a1' and false when they do not, whatever the reply to the ETX frame.
C13_LoopbackResult ==
    LoopbackRan => (ret.exc = "none" /\ ret.val = <<EchoesMatch>>)

\* C13 as amended: when the reply to the ETX frame is the acknowledge, the
\* loopback test returns true if the two echoes (terminator and trailing ENQ
\* taken off) make 'a1' and false if not; when that reply is anything else the
\* call raises IOError and returns no verdict, matching echoes or not.
C13_LoopbackResultAfterEtxAck ==
    LoopbackRan =>
        IF io[Len(io)] = R(<<ACK, CR, LF>>)
        THEN ret.exc = "none" /\ ret.val = <<EchoesMatch>>
        ELSE ret.exc = "IOError" /\ ret.val = <<>>

\* matching echoes and the ETX frame refused with NAK: IOError, no verdict
C13_Witness ==
    /\ LoopbackRan
    /\ EchoesMatch
    /\ io[Len(io)] = R(<<NAK, CR, LF>>)
    /\ ret.exc = "IOError" /\ ret.msg = NakMsg

\* the command of each data-bearing method
DataCommand(op, arg) ==
    CASE op = "program_number" -> <<"P", "N", "R">>
      [] op = "pressure_gauge" -> <<"P", "R", IF arg = 1 THEN "1" ELSE "2">>
      [] op = "pressure_gauges" -> <<"P", "R", "X">>
      [] op = "gauge_identification" -> <<"T", "I", "D">>
      [] op = "pressure_unit" -> <<"U", "N", "I">>

DataOps ==
    {"program_number", "pressure_gauge", "pressure_gauges",
     "gauge_identification", "pressure_unit"}

\* C14: a data-bearing method goes through the handshake once: nothing at all
\* (closed port, invalid gauge); or the command frame and a reply that is not
\* the acknowledge, then IOError with no ENQ and nothing sent again; or the
\* command frame, the acknowledge, one ENQ and one data line. The method has
\* then returned or raised.
C14_Handshake ==
    (ret.peer = "real" /\ ret.op \in DataOps) =>
        \/ /\ io = <<>>
           /\ ret.exc \in {"PortNotOpenError", "ValueError"}
           /\ ~is_open \/ (ret.op = "pressure_gauge" /\ ret.arg \notin {1, 2})
        \/ /\ Len(io) = 2
           /\ io[1] = W(DataCommand(ret.op, ret.arg) \o <<CR, LF>>)
           /\ io[2].d = "r" /\ io[2].b # <<ACK, CR, LF>>
           /\ ret.exc = "IOError"
        \/ /\ Len(io) = 4
           /\ io[1] = W(DataCommand(ret.op, ret.arg) \o <<CR, LF>>)
           /\ io[2] = R(<<ACK, CR, LF>>)
           /\ io[3] = W(<<ENQ>>)
           /\ io[4].d = "r"

\* TID refused with NAK: one frame, one read, no ENQ
C14_Witness ==
    /\ ret.op = "gauge_identification"
    /\ io = << W(<<"T", "I", "D", CR, LF>>), R(<<NAK, CR, LF>>) >>
    /\ ret.exc = "IOError"
\* C15 as stated: a fresh handle is Open, after open_port the handle is Open
\* and after close_port it is Closed, from any prior state.
C15_OpenAfterOpenPort ==
    /\ ret.op = "__init__" => is_open
    /\ (ret.peer = "real" /\ ret.op = "open_port") => is_open
    /\ (ret.peer = "real" /\ ret.op = "close_port") => ~is_open

\* one call on the handle, seen as a step
C15_Step ==
    /\ ret.op = "__init__" => is_open
    /\ ret'.op = "open_port" =>
          IF is_open
          THEN /\ io' = <<>> /\ is_open'
               /\ ret'.exc = "none" /\ ret'.val = <<"Serial port open">>
          ELSE /\ io' = <<SerialOpen>>
               /\ \/ /\ is_open' /\ ret'.exc = "none"
                     /\ ret'.val = <<"Serial port open">>
                  \/ /\ ~is_open' /\ ret'.exc = "SerialException"
                     /\ ret'.val = <<>>
    /\ ret'.op = "close_port" =>
          /\ ~is_open'
          /\ io' = (IF is_open THEN <<SerialClose>> ELSE <<>>)
          /\ ret'.exc = "none" /\ ret'.val = <<"Serial port closed">>
    /\ ret'.op \notin {"open_port", "close_port"} => is_open' = is_open

\* C15 as amended: a handle constructed with a port is Open; a command leaves
\* the handle as it was; close_port leaves it Closed and reports success from
\* any prior state, calling serial.close() only when it was Open; open_port on
\* an Open handle reports success without touching the transport; open_port
\* on a Closed handle calls serial.open() once and either leaves the handle
\* Open and reports success, or, when the transport cannot be opened, raises
\* and leaves the handle Closed.
C15_Lifecycle == [][C15_Step]_vars

\* a handle closed and opened again
C15_Witness ==
    /\ ret.peer = "real" /\ ret.op = "open_port" /\ ret.exc = "none"
    /\ io = <<SerialOpen>> /\ is_open /\ calls = 2
\* C16: every line a call consumes, as its acknowledge or as its data, is the
\* device's reply to a write of that same call, also after an earlier call
\* failed or timed out; a late reply is never taken by a later call.
C16_OwnReplyOnly ==
    \A k \in 1..Len(taken) : taken[k] = calls
\* C17: init_gauge_controller gives a controller whenever the port is 'Sim' or
\* the serial port opens, and none only when opening fails; main exits with
\* 'Could not connect' only on an open failure and otherwise reaches
\* run_animation.
C17_ControllerWheneverPortOpens ==
    /\ (pc = "exit") => (com_port # "Sim" /\ ~is_open)
    /\ (pc \in {"exit", "run_animation"} /\ com_port \in {"Sim", "COM3"}
          /\ (com_port = "Sim" \/ is_open))
       => (gauge_controller # "None" /\ pc = "run_animation")

IsRead(ev) == ev.call = "pressure_gauge"

IsOkayRead(ev) == ev.call = "pressure_gauge" /\ ev.status = OkayText

IsClose(ev) == ev.call = "close_port"

IsPR1(bytes) == bytes = <<"P", "R", "1", CR, LF>>

Running == pc \in {"show", "shown", "raising", "raised", "plot_full_log", "done"}

\* C18: each frame of the animation calls the single-gauge read of the
\* controller exactly once; after any number of frames pressure_log, time_log
\* and x_vals have the same length n, x_vals is 0, 1, ..., n-1, and n is the
\* number of frames whose reading had the status 'Measurement data okay', the
\* pressures logged being those readings in order; a frame with another
\* status, or none, appends nothing.
C18_LogsFollowOkayTicks ==
    Running =>
        LET n  == Len(x_vals)
            ok == SelectSeq(trace, IsOkayRead)
        IN  /\ Len(SelectSeq(trace, IsRead)) = ticks
            /\ calls = ticks + Len(SelectSeq(trace, IsClose))
            /\ gauge_controller = "real" =>
                  Len(SelectSeq(written, IsPR1)) = ticks
            /\ gauge_controller = "sim" => sim_reads[1] = ticks
            /\ Len(pressure_log) = n /\ Len(time_log) = n
            /\ x_vals = [i \in 1..n |-> i - 1]
            /\ n = Len(ok)
            /\ pressure_log = [i \in 1..n |-> ok[i].value]

\* three frames of the real controller, the second overrange
C18_Witness ==
    /\ pc = "show" /\ gauge_controller = "real" /\ ticks = 3
    /\ trace[2].status = "Overrange"
    /\ x_vals = <<0, 1>>
    /\ time_log = <<0, 2>>

\* C19: at every frame the data handed to the plot line has at most
\* x_axis_window_range points and is the most recent
\* min(n, x_axis_window_range) recorded samples in order, for every
\* non-negative window range, 0 included.
C19_PlotHoldsWindow ==
    Running =>
        LET n == Len(x_vals)
            k == IF n < x_axis_window_range THEN n ELSE x_axis_window_range
        IN  /\ Len(xdata) <= x_axis_window_range
            /\ xdata = SubSeq(x_vals, n - k + 1, n)
            /\ ydata = SubSeq(pressure_log, n - k + 1, n)

\* C20: once run_animation has started, close_port is called on its
\* controller exactly once before run_animation finishes, by the window being
\* closed or by an exception; the call comes before the full-log plot, and no
\* pressure read follows it.
C20_ClosedOnceBeforeFullLog ==
    LET closes == Len(SelectSeq(trace, IsClose))
    IN  /\ pc \in {"run_animation", "show", "shown", "raising"} => closes = 0
        /\ pc \in {"raised", "plot_full_log", "done"} =>
              /\ closes = 1
              /\ gauge_controller = "real" => ~is_open
              /\ gauge_controller = "sim" => ~sim_open[1]
        /\ \A i, j \in 1..Len(trace) :
              (i < j /\ IsClose(trace[i])) => ~IsRead(trace[j])
        /\ \A j \in 1..Len(trace) :
              trace[j].call = "plot_full_log" =>
                  \E i \in 1..(j - 1) : IsClose(trace[i])

\* a frame raised, plt.show() ended with it, and the port was closed
C20_Witness ==
    /\ pc = "raised" /\ gauge_controller = "real" /\ ~is_open
    /\ Len(trace) = 3
    /\ IsRead(trace[1]) /\ trace[2].status = "raised" /\ IsClose(trace[3])

====
